---------------------------- MODULE Spec2Model ----------------------------
(***************************************************************************)
(* A state-machine model of D3ForceGraph (src/src/index.ts): the message   *)
(* protocol with the layout worker, the interpolating render loop, the     *)
(* throttled visibility-and-load pass with its texture fetches, and the    *)
(* highlight set kept in the three.js scene.                               *)
(*                                                                         *)
(* Conventions.                                                            *)
(*  - A Float32Array is a heap slot: the fields targetPositionStatus,      *)
(*    currentPositionStatus and cachePositionStatus hold references        *)
(*    (0 is undefined), so `a = b` of the source aliases and a write       *)
(*    through one name is seen through the other.                          *)
(*  - Buffers hold the coordinates of the first Len(NodeIds) nodes only    *)
(*    (index i*2 is x, i*2+1 is y, as in the source); every buffer         *)
(*    operation of the source is pointwise, so the remaining coordinates   *)
(*    behave like these.                                                   *)
(*  - NaN is the integer -1, outside the coordinate range; arithmetic and  *)
(*    comparisons go through operators that give it its IEEE behaviour.    *)
(*  - Date.now() is the variable now.  It advances in steps of Quantum     *)
(*    milliseconds; any number of handlers may run at one clock reading.   *)
(*  - requestAnimationFrame invokes render as a method of the instance.    *)
(***************************************************************************)
EXTENDS Integers, Sequences, FiniteSets, TLC

\* ------------------------------------------------------------------ bounds
\* first clock reading (Date.now() is never 0)
T0 == 1000
\* the clock advances in steps of Quantum ms
Quantum == 1000
\* last clock reading is T0 + MaxElapsed
MaxElapsed == 4000
\* highest currentTick the worker sends
MaxTick == 3
\* coordinates of a snapshot are 0 or MaxCoord
MaxCoord == 2
\* most objects the scene may hold
MaxScene == 12
\* most texture fetches in flight for one node
MaxFetches == 2
\* camera distance of the culling passes of SpecCull
CullZ == 140
\* last clock reading of SpecWindow is T0 + WindowElapsed: a tick interval
\* longer than the settle delay, then the settle delay
WindowElapsed == 5000
\* most raw nodes, and most raw links, of the data handed to the constructor
MaxRawNodes == 2
MaxRawLinks == 3
\* ------------------------------------------------------- program constants
\* render: interpolation threshold on perfInfo.nodeCounts
INTERPOLATE_ABOVE == 1000
\* end handler: delay of the outer setTimeout
SETTLE_DELAY == 2000
\* end handler: delay of the inner setTimeout
STOP_DELAY == 2000
\* loadImage: delay of the throttle setTimeout
THROTTLE_DELAY == 1000
\* render, loadImage: avatars are loaded only below this camera distance
IMAGE_DISTANCE == 300
\* render: nearest and farthest camera distance
MIN_DISTANCE == 75
MAX_DISTANCE == 16000

NaN == -1
Undefined == 0
\* this.highlighted when nothing is highlighted
NoId == <<>>
\* a node's image when it has none (undefined, null: every falsy value)
NoImage == ""
DEFAULT_IMAGE == "http://img.geilicdn.com/u_default.jpg"
CUSTOM_IMAGE == "http://cdn/custom.jpg"

\* ids are strings, modelled as sequences of characters
NodeIds == << <<"a">>, <<"n", "u", "l", "l", "1">> >>

Min(a, b) == IF a <= b THEN a ELSE b

\* number of nodes whose coordinates and info the model carries
Tracked(n) == Min(n, Len(NodeIds))

\* String.prototype.startsWith
StartsWith(s, prefix) ==
  /\ Len(s) >= Len(prefix)
  /\ \A i \in 1..Len(prefix) : s[i] = prefix[i]

Coords(n) == 0..(2 * Tracked(n) - 1)

\* the position snapshots a tick or end message may carry: coordinate 0 and
\* the other coordinates are each 0 or MaxCoord
Snapshots(n) ==
  { [c \in Coords(n) |-> IF c = 0 THEN a ELSE b] : a, b \in {0, MaxCoord} }

VARIABLES
  data,                  \* this.data: the raw nodes and links
  now,                   \* Date.now()
  perfInfo,              \* this.perfInfo
  processedData,         \* this.processedData: nodes, links, nodeInfoMap
  linkBuffer,            \* processedData.linkBuffer: detached, and read since
  heap,                  \* the Float32Arrays, by reference
  targetPositionStatus,
  currentPositionStatus,
  cachePositionStatus,
  rafId,                 \* this.rafId (0 is null)
  rafQueue,              \* handles of the pending animation-frame callbacks
  throttleTimer,         \* this.throttleTimer (0 is null)
  timers,                \* pending setTimeout callbacks, in creation order
  mouseStatus,           \* mouseOnChart, mouseOnTable
  listeners,             \* event types the container has a listener for
  camera,                \* camera.position
  scene,                 \* scene.children
  highlighted,           \* this.highlighted
  fetches,               \* per node id: fetches in flight, and whether one failed
  worker,                \* the worker, and its side of the channel
  thrown,                \* what the last handler threw ("" when it returned)
  frame,                 \* which branch the last render frame took
  passes                 \* visibility-and-load passes run: how many, the last
                         \* one when, and the nodes it found visible

vars == << data, now, perfInfo, processedData, linkBuffer, heap,
           targetPositionStatus, currentPositionStatus, cachePositionStatus,
           rafId, rafQueue, throttleTimer, timers, mouseStatus, listeners,
           camera, scene, highlighted, fetches, worker, thrown, frame,
           passes >>

\* ------------------------------------------------------------ Float32Arrays
Refs == 1..4
Free == <<>>

Live(t, c, k) == {t, c, k} \ {Undefined}

\* new Float32Array(...): a slot no field refers to
Alloc(live) ==
  CHOOSE r \in Refs : r \notin live /\ \A q \in Refs : q \notin live => r <= q

\* slots no field refers to are garbage
Collect(h, live) == [r \in Refs |-> IF r \in live THEN h[r] ELSE Free]

\* a !== b on numbers
StrictNotEqual(a, b) == a = NaN \/ b = NaN \/ a # b

\* a <= b on numbers
LessEq(a, b) == a # NaN /\ b # NaN /\ a <= b

Abs(x) == IF x < 0 THEN -x ELSE x
Sign(x) == IF x < 0 THEN -1 ELSE 1

\* render: (target - cache) / intervalTime * stepTime + cache.
\* It is evaluated only when stepTime <= intervalTime, so with intervalTime = 0
\* it is x / 0 * 0 + cache: an infinity or NaN times 0, which is NaN.  Otherwise
\* the quotient is exact up to rounding, which here rounds toward cache.
Blend(target, cache, intervalTime, stepTime) ==
  IF target = NaN \/ cache = NaN THEN NaN
  ELSE IF intervalTime = 0 THEN NaN
  ELSE cache + Sign(target - cache)
               * ((Abs(target - cache) * stepTime) \div intervalTime)

\* getPositionZ (four-parameter logistic curve), rounded to an integer
getPositionZ(n) ==
  CASE n = 0 -> 150
    [] n = 1 -> 258
    [] n = 2 -> 298
    [] n = 3 -> 329
    [] n = 4 -> 354
    [] n = 1000 -> 2754
    [] n = 1001 -> 2755
    [] OTHER -> MAX_DISTANCE

\* ---------------------------------------------------------------- the scene
Obj(name, id, items) == [name |-> name, id |-> id, items |-> items]

\* scene.getObjectByName: index of the first child with the name, 0 if none
getObjectByName(sc, name) ==
  IF \E i \in 1..Len(sc) : sc[i].name = name
  THEN CHOOSE i \in 1..Len(sc) :
         sc[i].name = name /\ \A j \in 1..(i - 1) : sc[j].name # name
  ELSE 0

\* scene.remove(object): no-op for undefined
SceneRemove(sc, i) ==
  IF i = 0 THEN sc
  ELSE [j \in 1..(Len(sc) - 1) |-> IF j < i THEN sc[j] ELSE sc[j + 1]]

\* ----------------------------------------------------------- preProcessData
\* JavaScript objects used as maps.  A lookup map[key] finds the map's own
\* entry or, failing that, a property inherited from Object.prototype
\* ("constructor", "toString", "valueOf", ...: "constructor" stands for them);
\* an inherited property is a function: truthy, and its .index is undefined.
IdConstructor == << "c", "o", "n", "s", "t", "r", "u", "c", "t", "o", "r" >>

ObjectPrototypeKeys == { IdConstructor }

\* !map[key] is false
Truthy(map, key) == key \in DOMAIN map \/ key \in ObjectPrototypeKeys

\* undefined, where the source has it among numbers
UndefinedIndex == -2

\* new Int32Array([...]): ToInt32(undefined) is 0
ToInt32(x) == IF x = UndefinedIndex THEN 0 ELSE x

\* `${source}-${target}`
linkInfoKey(source, target) == source \o << "-" >> \o target

Digits == << "0", "1", "2", "3", "4", "5", "6", "7", "8", "9" >>

IsDigit(c) == \E d \in 1..Len(Digits) : Digits[d] = c

DigitValue(c) == (CHOOSE d \in 1..Len(Digits) : Digits[d] = c) - 1

\* a key that is a canonical array index ("0", "7", "12"; not "01", not "a");
\* the ids of the model are far below the limit of 2^32 - 2
IsIndexKey(k) ==
  /\ Len(k) >= 1
  /\ \A i \in 1..Len(k) : IsDigit(k[i])
  /\ (Len(k) = 1 \/ k[1] # "0")

RECURSIVE KeyValue(_)
KeyValue(k) ==
  IF k = <<>> THEN 0
  ELSE 10 * KeyValue(SubSeq(k, 1, Len(k) - 1)) + DigitValue(k[Len(k)])

RECURSIVE InsertByValue(_, _)
\* k put into the ascending sequence q of index keys
InsertByValue(q, k) ==
  IF q = <<>> THEN << k >>
  ELSE IF KeyValue(k) < KeyValue(Head(q)) THEN << k >> \o q
  ELSE << Head(q) >> \o InsertByValue(Tail(q), k)

RECURSIVE IndexKeysAscending(_)
IndexKeysAscending(q) ==
  IF q = <<>> THEN <<>>
  ELSE IF IsIndexKey(q[Len(q)])
       THEN InsertByValue(IndexKeysAscending(SubSeq(q, 1, Len(q) - 1)), q[Len(q)])
       ELSE IndexKeysAscending(SubSeq(q, 1, Len(q) - 1))

\* Object.keys of an object whose keys were created in the order `created`:
\* the array-index keys in ascending numeric order, then the other keys in
\* the order of their creation
ObjectKeys(created) ==
  IndexKeysAscending(created) \o SelectSeq(created, LAMBDA k : ~IsIndexKey(k))

RECURSIVE InsertByCount(_, _)
\* e put into q, which is sorted by count descending, behind every entry
\* whose count is not smaller
InsertByCount(q, e) ==
  IF q = <<>> THEN << e >>
  ELSE IF e.count > Head(q).count THEN << e >> \o q
  ELSE << Head(q) >> \o InsertByCount(Tail(q), e)

RECURSIVE SortByCount(_)
\* sort((a, b) => b.count - a.count): a stable sort, count descending
SortByCount(q) ==
  IF q = <<>> THEN <<>>
  ELSE InsertByCount(SortByCount(SubSeq(q, 1, Len(q) - 1)), q[Len(q)])

\* statTable keeps at most this many entries
STAT_TABLE_MAX == 20

RECURSIVE IndexNodes(_, _, _)
\* this.data.nodes.forEach: the raw nodes from position i on, added to acc
IndexNodes(raw, i, acc) ==
  IF i > Len(raw) THEN acc
  ELSE LET e == raw[i]
       IN IndexNodes(raw, i + 1,
            IF Truthy(acc.nodeInfoMap, e.id) THEN acc
            ELSE [nodes |-> Append(acc.nodes, e.id),
                  nodeInfoMap |-> (e.id :> [index |-> acc.nodeCount,
                                            scale |-> e.scale,
                                            image |-> e.image,
                                            name |-> e.name])
                                    @@ acc.nodeInfoMap,
                  nodeCount |-> acc.nodeCount + 1])

\* result.nodeInfoMap[id].index
IndexOfId(nodeInfoMap, id) ==
  IF id \in DOMAIN nodeInfoMap THEN nodeInfoMap[id].index ELSE UndefinedIndex

\* result.nodeInfoMap[id] is undefined, so reading its .index throws
IndexThrows(nodeInfoMap, id) == ~Truthy(nodeInfoMap, id)

RECURSIVE IndexLinks(_, _, _, _)
\* this.data.links.forEach: the raw links from position i on, added to acc;
\* countKeys is the order in which the keys of linkCountMap were created
IndexLinks(raw, nodeInfoMap, i, acc) ==
  IF i > Len(raw) \/ acc.throws THEN acc
  ELSE LET e == raw[i]
           key == linkInfoKey(e.source, e.target)
       IN IndexLinks(raw, nodeInfoMap, i + 1,
            IF key \in DOMAIN acc.linkInfoMap THEN acc
            ELSE IF IndexThrows(nodeInfoMap, e.source)
                      \/ IndexThrows(nodeInfoMap, e.target)
            THEN [acc EXCEPT !.throws = TRUE]
            ELSE [links |-> Append(acc.links,
                                   [source |-> e.source, target |-> e.target]),
                  linkBuffer |-> acc.linkBuffer
                                   \o << IndexOfId(nodeInfoMap, e.source),
                                         IndexOfId(nodeInfoMap, e.target) >>,
                  linkInfoMap |-> (key :> [color |-> e.color]) @@ acc.linkInfoMap,
                  linkCountMap |->
                    IF e.source \in DOMAIN acc.linkCountMap
                    THEN [acc.linkCountMap EXCEPT ![e.source] = @ + 1]
                    ELSE (e.source :> 1) @@ acc.linkCountMap,
                  countKeys |->
                    IF e.source \in DOMAIN acc.linkCountMap THEN acc.countKeys
                    ELSE Append(acc.countKeys, e.source),
                  linkCount |-> acc.linkCount + 1,
                  throws |-> FALSE])

\* preProcessData: the indexed model of d, or throws when it throws
preProcessData(d) ==
  LET ns == IndexNodes(d.nodes, 1,
              [nodes |-> <<>>, nodeInfoMap |-> <<>>, nodeCount |-> 0])
      ls == IndexLinks(d.links, ns.nodeInfoMap, 1,
              [links |-> <<>>, linkBuffer |-> <<>>, linkInfoMap |-> <<>>,
               linkCountMap |-> <<>>, countKeys |-> <<>>, linkCount |-> 0,
               throws |-> FALSE])
      keys == ObjectKeys(ls.countKeys)
      table == SortByCount([i \in 1..Len(keys) |->
                              [source |-> keys[i],
                               count |-> ls.linkCountMap[keys[i]]]])
  IN [throws |-> ls.throws,
      nodes |-> ns.nodes,
      links |-> ls.links,
      nodeInfoMap |-> ns.nodeInfoMap,
      linkInfoMap |-> ls.linkInfoMap,
      statTable |-> SubSeq(table, 1, Min(Len(table), STAT_TABLE_MAX)),
      linkBuffer |-> [i \in 1..Len(ls.linkBuffer) |-> ToInt32(ls.linkBuffer[i])]]

\* a raw node and a raw link of this.data
RawNode(id, scale, image, name) ==
  [id |-> id, scale |-> scale, image |-> image, name |-> name]

RawLink(source, target, color) ==
  [source |-> source, target |-> target, color |-> color]

\* --------------------------------------------------------------------- Init
TrackedIds(n) == {NodeIds[i] : i \in 1..Tracked(n)}

Link(s, t) == [source |-> s, target |-> t]

\* constructor, init, prepareScene, prepareBasicMesh, initWorker
InitGraph(n, links, images) ==
  /\ data = [nodes |-> [i \in 1..Tracked(n) |->
                          RawNode(NodeIds[i], 1, images[NodeIds[i]], NodeIds[i])],
             links |-> [i \in 1..Len(links) |->
                          RawLink(links[i].source, links[i].target, i)]]
  /\ now = T0
  /\ perfInfo = [nodeCounts |-> n, linkCounts |-> Len(links),
                 prevTickTime |-> 0, targetTick |-> 0, intervalTime |-> 0,
                 layouting |-> FALSE]
  /\ processedData =
       [nodes |-> SubSeq(NodeIds, 1, Tracked(n)),
        links |-> links,
        nodeInfoMap |-> [id \in TrackedIds(n) |->
                           [index |-> (CHOOSE i \in 1..Tracked(n) : NodeIds[i] = id) - 1,
                            image |-> images[id],
                            imageTexture |-> FALSE,
                            imagePoint |-> FALSE]]]
  /\ linkBuffer = [detached |-> FALSE, readDetached |-> FALSE]
  /\ heap = [r \in Refs |-> Free]
  /\ targetPositionStatus = Undefined
  /\ currentPositionStatus = Undefined
  /\ cachePositionStatus = Undefined
  /\ rafId = 0
  /\ rafQueue = {}
  /\ throttleTimer = 0
  /\ timers = <<>>
  /\ mouseStatus = [mouseOnChart |-> FALSE, mouseOnTable |-> FALSE]
  /\ listeners = {}
  /\ camera = [x |-> 0, y |-> 0, z |-> getPositionZ(n)]
  /\ scene = << Obj("basePoints", NoId, <<>>), Obj("baseLines", NoId, <<>>) >>
  /\ highlighted = NoId
  /\ fetches = [id \in TrackedIds(n) |-> [pending |-> 0, failed |-> FALSE]]
  /\ worker = [created |-> TRUE, starts |-> 0, onmessage |-> FALSE,
               lastTick |-> 0, ended |-> FALSE]
  /\ thrown = ""
  /\ frame = [regime |-> "none", blended |-> FALSE, snapped |-> FALSE]
  /\ passes = [at |-> 0, count |-> 0, visible |-> <<>>]

\* ------------------------------------------------------- startRender / stop
\* requestAnimationFrame: a handle no pending callback has
NewHandle(queue) ==
  CHOOSE h \in 1..(Cardinality(queue) + 1) :
    h \notin queue /\ \A g \in 1..(h - 1) : g \in queue

\* startRender without its test of rafId
startRenderUnguarded(id, queue) ==
  << NewHandle(queue), queue \cup {NewHandle(queue)} >>

\* startRender, as the pair <<rafId, rafQueue>> it leaves
startRender(id, queue) ==
  IF id = 0
  THEN << NewHandle(queue), queue \cup {NewHandle(queue)} >>
  ELSE << id, queue >>

\* stopRender, as the pair <<rafId, rafQueue>> it leaves
stopRender(id, queue) ==
  IF id # 0 THEN << 0, queue \ {id} >> ELSE << id, queue >>


\* ------------------------------------------------------------------- timers
Timer(kind, due) == [kind |-> kind, due |-> due]

\* the browser runs the pending callback that is due first, and of two due at
\* the same time the one set first
Fires(i) ==
  /\ i \in 1..Len(timers)
  /\ timers[i].due <= now
  /\ \A j \in 1..Len(timers) :
       \/ timers[j].due > timers[i].due
       \/ (timers[j].due = timers[i].due /\ j >= i)

WithoutTimer(i) ==
  [j \in 1..(Len(timers) - 1) |-> IF j < i THEN timers[j] ELSE timers[j + 1]]

\* -------------------------------------------------------------------- start
\* start(): post the start message, transferring linkBuffer.buffer, and set
\* worker.onmessage.  Posting a detached buffer throws DataCloneError before
\* anything is sent.
start ==
  /\ IF linkBuffer.detached
     THEN /\ linkBuffer' = [linkBuffer EXCEPT !.readDetached = TRUE]
          /\ thrown' = "DataCloneError"
          /\ UNCHANGED worker
     ELSE /\ linkBuffer' = [linkBuffer EXCEPT !.detached = TRUE]
          /\ worker' = [worker EXCEPT !.starts = @ + 1, !.onmessage = TRUE]
          /\ thrown' = ""
  /\ UNCHANGED << data, passes, now, perfInfo, processedData, heap, targetPositionStatus,
                  currentPositionStatus, cachePositionStatus, rafId, rafQueue,
                  throttleTimer, timers, mouseStatus, listeners, camera, scene,
                  highlighted, fetches, frame >>

\* The worker's side of the protocol: once started it sends ticks in
\* increasing currentTick order, then end, once and last.
WorkerSendsTick(currentTick) ==
  /\ worker.starts > 0 /\ ~worker.ended
  /\ currentTick > worker.lastTick

WorkerSendsEnd ==
  /\ worker.starts > 0 /\ ~worker.ended
  /\ worker.lastTick >= 1

\* worker.onmessage, case 'tick'
\* the cache sharing the storage of the new target
newCacheShared(tgt, cur) == tgt

\* the tick handler's first cache: new Float32Array(len)
newCache(tgt, cur) == Alloc(Live(tgt, cur, Undefined))

\* caching the target the tick replaces
cacheSourcePreviousTarget(cur, previousTarget) == previousTarget

\* the buffer the tick handler copies into cachePositionStatus: the
\* rendered one
cacheSource(cur, previousTarget) == cur

Tick(currentTick, nodes) ==
  /\ worker.onmessage /\ WorkerSendsTick(currentTick)
  /\ LET prev == IF perfInfo.prevTickTime # 0 THEN perfInfo.prevTickTime ELSE now
         cur == IF currentTick = 2 THEN targetPositionStatus
                ELSE currentPositionStatus
         raf == IF currentTick = 2 THEN startRender(rafId, rafQueue)
                ELSE << rafId, rafQueue >>
         tgt == Alloc(Live(Undefined, cur, cachePositionStatus))
         h1 == [heap EXCEPT ![tgt] = nodes]
         cache == IF currentTick = 1 \/ cur = Undefined THEN cachePositionStatus
                  ELSE IF cachePositionStatus = Undefined
                       THEN newCache(tgt, cur)
                       ELSE cachePositionStatus
         h2 == IF currentTick = 1 \/ cur = Undefined THEN h1
               ELSE [h1 EXCEPT ![cache] =
                                 h1[cacheSource(cur, targetPositionStatus)]]
     IN /\ perfInfo' = [perfInfo EXCEPT
                          !.layouting = TRUE,
                          !.intervalTime = now - prev,
                          !.prevTickTime = now,
                          !.targetTick = IF currentTick = 1 THEN @ ELSE currentTick]
        /\ targetPositionStatus' = tgt
        /\ currentPositionStatus' = cur
        /\ cachePositionStatus' = cache
        /\ heap' = Collect(h2, Live(tgt, cur, cache))
        /\ rafId' = raf[1]
        /\ rafQueue' = raf[2]
  /\ worker' = [worker EXCEPT !.lastTick = currentTick]
  /\ thrown' = ""
  /\ UNCHANGED << data, passes, now, processedData, linkBuffer, throttleTimer, timers,
                  mouseStatus, listeners, camera, scene, highlighted, fetches,
                  frame >>

\* worker.onmessage, case 'end'
End(nodes) ==
  /\ worker.onmessage /\ WorkerSendsEnd
  /\ LET tgt == Alloc(Live(Undefined, currentPositionStatus, cachePositionStatus))
     IN /\ targetPositionStatus' = tgt
        /\ heap' = Collect([heap EXCEPT ![tgt] = nodes],
                           Live(tgt, currentPositionStatus, cachePositionStatus))
  /\ listeners' = listeners \cup {"mousemove", "mouseout"}
  /\ timers' = Append(timers, Timer("settle", now + SETTLE_DELAY))
  /\ worker' = [worker EXCEPT !.ended = TRUE]
  /\ thrown' = ""
  /\ UNCHANGED << data, passes, now, perfInfo, processedData, linkBuffer,
                  currentPositionStatus, cachePositionStatus, rafId, rafQueue,
                  throttleTimer, mouseStatus, camera, scene, highlighted,
                  fetches, frame >>

\* renderArrow reads currentPositionStatus for every link
renderArrowThrows ==
  currentPositionStatus = Undefined /\ Len(processedData.links) > 0

\* the outer setTimeout callback of 'end': layouting = false, renderArrow(),
\* then the inner setTimeout.  The arrows mesh keeps the positions it was
\* computed from.
Settle(i) ==
  /\ Fires(i) /\ timers[i].kind = "settle"
  /\ perfInfo' = [perfInfo EXCEPT !.layouting = FALSE]
  /\ IF renderArrowThrows
     THEN /\ thrown' = "TypeError"
          /\ timers' = WithoutTimer(i)
          /\ UNCHANGED scene
     ELSE /\ thrown' = ""
          /\ scene' = Append(scene,
                        Obj("arrows", NoId,
                            IF currentPositionStatus = Undefined THEN <<>>
                            ELSE heap[currentPositionStatus]))
          /\ timers' = Append(WithoutTimer(i), Timer("stop", now + STOP_DELAY))
  /\ UNCHANGED << data, passes, now, processedData, linkBuffer, heap, targetPositionStatus,
                  currentPositionStatus, cachePositionStatus, rafId, rafQueue,
                  throttleTimer, mouseStatus, listeners, camera, highlighted,
                  fetches, worker, frame >>

\* the pointer test with the table forgotten
PointerOffChart(ms) == ~ms.mouseOnChart

\* the pointer test of the inner setTimeout callback
PointerAway(ms) == ~ms.mouseOnChart /\ ~ms.mouseOnTable

\* the inner setTimeout callback of 'end'
Stop(i) ==
  /\ Fires(i) /\ timers[i].kind = "stop"
  /\ LET raf == IF PointerAway(mouseStatus)
                THEN stopRender(rafId, rafQueue)
                ELSE << rafId, rafQueue >>
     IN rafId' = raf[1] /\ rafQueue' = raf[2]
  /\ timers' = WithoutTimer(i)
  /\ thrown' = ""
  /\ UNCHANGED << data, passes, now, perfInfo, processedData, linkBuffer, heap,
                  targetPositionStatus, currentPositionStatus,
                  cachePositionStatus, throttleTimer, mouseStatus, listeners,
                  camera, scene, highlighted, fetches, worker, frame >>


\* ---------------------------------------------------------------- highlight
\* the links that leave sourceId only
HighlightLinksFromSource(sourceId) ==
  SelectSeq(processedData.links, LAMBDA e : e.source = sourceId)

\* addHighLight: the links that touch sourceId
HighlightLinks(sourceId) ==
  SelectSeq(processedData.links,
            LAMBDA e : e.source = sourceId \/ e.target = sourceId)

\* addHighLight: the opposite endpoint of each such link, then sourceId
HighlightNodes(sourceId) ==
  LET links == HighlightLinks(sourceId)
  IN Append([i \in 1..Len(links) |->
               IF links[i].target = sourceId THEN links[i].source
               ELSE links[i].target],
            sourceId)

\* addHighLight reads currentPositionStatus for the nodes it draws, before it
\* adds anything to the scene
addHighLightThrows(cur) == cur = Undefined

\* addHighLight: the meshes it adds, under the names it gives them
addHighLight(sc, sourceId) ==
  sc \o << Obj("hlNodes", sourceId, HighlightNodes(sourceId)),
           Obj("hlLine", sourceId, HighlightLinks(sourceId)),
           Obj("hlArrow", sourceId, HighlightLinks(sourceId)),
           Obj("hlText", sourceId, << sourceId >>) >>

RECURSIVE Without(_, _, _)
\* the children from position i on, but for those at the positions in found
Without(sc, found, i) ==
  IF i > Len(sc) THEN <<>>
  ELSE (IF i \in found THEN <<>> ELSE << sc[i] >>) \o Without(sc, found, i + 1)

\* unhighlight: look the four names up, then remove what was found
unhighlight(sc) ==
  Without(sc,
          { getObjectByName(sc, "hlNodes"), getObjectByName(sc, "hlLines"),
            getObjectByName(sc, "hlText"), getObjectByName(sc, "hlArrows") },
          1)

\* ---------------------------------------------------------------- loadImage
\* loadImage without its test of throttleTimer
loadImageUnthrottled(tt, tms) ==
  << 1, Append(tms, Timer("throttle", now + THROTTLE_DELAY)) >>

\* loadImage(), as the pair <<throttleTimer, timers>> it leaves
loadImage(tt, tms) ==
  IF tt = 0
  THEN << 1, Append(tms, Timer("throttle", now + THROTTLE_DELAY)) >>
  ELSE << tt, tms >>

\* ------------------------------------------------------------------- render
\* the regime test with >= for >
InterpolatingFrom(nodeCounts) == nodeCounts >= INTERPOLATE_ABOVE

Interpolating(nodeCounts) == nodeCounts > INTERPOLATE_ABOVE

Clamp(z) ==
  IF z < MIN_DISTANCE THEN MIN_DISTANCE
  ELSE IF z > MAX_DISTANCE THEN MAX_DISTANCE ELSE z

\* the blending test of render
InWindow(stepTime, intervalTime) == stepTime <= intervalTime

\* the snap test of render
SnapNeeded(layouting, current, target) ==
  ~layouting /\ StrictNotEqual(current[0], target[0])

\* render, up to updateHighLight: what it leaves of the buffers, whether it
\* threw, and the branch it took
RenderPositions ==
  LET stepTime == now - perfInfo.prevTickTime
      cur == currentPositionStatus
      tgt == targetPositionStatus
      cache == cachePositionStatus
  IN IF Interpolating(perfInfo.nodeCounts)
     THEN LET blend == InWindow(stepTime, perfInfo.intervalTime)
              throws1 == blend /\ (cur = Undefined \/ tgt = Undefined
                                   \/ cache = Undefined)
              h1 == IF blend /\ ~throws1
                    THEN [heap EXCEPT ![cur] =
                            [i \in DOMAIN heap[cur] |->
                               Blend(heap[tgt][i], heap[cache][i],
                                     perfInfo.intervalTime, stepTime)]]
                    ELSE heap
              throws2 == ~throws1 /\ ~perfInfo.layouting
                           /\ (cur = Undefined \/ tgt = Undefined)
              snap == ~throws1 /\ ~throws2
                        /\ cur # Undefined /\ tgt # Undefined
                        /\ SnapNeeded(perfInfo.layouting, h1[cur], h1[tgt])
          IN [cur |-> IF snap THEN tgt ELSE cur,
              heap |-> h1,
              throws |-> throws1 \/ throws2,
              frame |-> [regime |-> "interpolate",
                         blended |-> blend /\ ~throws1,
                         snapped |-> snap]]
     ELSE [cur |-> tgt,
           heap |-> heap,
           throws |-> tgt = Undefined /\ perfInfo.nodeCounts > 0,
           frame |-> [regime |-> "direct", blended |-> FALSE, snapped |-> FALSE]]

\* what the ray of updateHighLight may hit first: nothing (NoId), a node (a
\* base point or its avatar), or the arrows mesh, which names no node
ArrowsHit == << "arrows" >>

Hits ==
  {NoId} \cup TrackedIds(perfInfo.nodeCounts)
         \cup (IF getObjectByName(scene, "arrows") # 0
                    /\ Len(processedData.links) > 0
               THEN {ArrowsHit} ELSE {})

\* render(): one animation frame
render(handle, hit) ==
  /\ handle \in rafQueue
  /\ hit \in Hits
  /\ hit \in TrackedIds(perfInfo.nodeCounts) /\ hit # highlighted
       => Len(scene) + 4 <= MaxScene
  /\ LET pos == RenderPositions
         z == Clamp(camera.z)
         queue == rafQueue \ {handle}
         hlThrows == /\ hit \in TrackedIds(perfInfo.nodeCounts)
                     /\ hit # highlighted
                     /\ addHighLightThrows(pos.cur)
         done == ~pos.throws /\ ~hlThrows
         load == IF done /\ ~perfInfo.layouting /\ z < IMAGE_DISTANCE
                 THEN loadImage(throttleTimer, timers)
                 ELSE << throttleTimer, timers >>
         raf == IF done THEN startRender(0, queue) ELSE << 0, queue >>
     IN /\ camera' = [camera EXCEPT !.z = z]
        /\ currentPositionStatus' = pos.cur
        /\ heap' = Collect(pos.heap, Live(targetPositionStatus, pos.cur,
                                          cachePositionStatus))
        /\ frame' = pos.frame
        /\ thrown' = IF done THEN "" ELSE "TypeError"
        /\ IF pos.throws \/ hlThrows
           THEN UNCHANGED << scene, highlighted >>
           ELSE IF hit \in TrackedIds(perfInfo.nodeCounts)
           THEN IF hit # highlighted
                THEN scene' = addHighLight(scene, hit) /\ highlighted' = hit
                ELSE UNCHANGED << scene, highlighted >>
           ELSE IF hit = NoId /\ ~mouseStatus.mouseOnTable
           THEN scene' = unhighlight(scene) /\ highlighted' = NoId
           ELSE UNCHANGED << scene, highlighted >>
        /\ throttleTimer' = load[1]
        /\ timers' = load[2]
        /\ rafId' = raf[1]
        /\ rafQueue' = raf[2]
  /\ UNCHANGED << data, passes, now, perfInfo, processedData, linkBuffer,
                  targetPositionStatus, cachePositionStatus, mouseStatus,
                  listeners, fetches, worker >>


\* -------------------------------------------------- visibility and textures
\* getViewPortRect: tan(22.5 degrees) = sqrt(2) - 1 as TAN_NUM / TAN_DEN, a
\* convergent of its continued fraction (0.41429 for 0.41421); the aspect
\* ratio is that of the default config, 400 / 400
TAN_NUM == 29
TAN_DEN == 70

\* getViewPortRect, scaled by TAN_DEN
getViewPortRect ==
  LET offsetY == camera.z * TAN_NUM
      offsetX == offsetY
  IN [left |-> camera.x * TAN_DEN - offsetX,
      right |-> camera.x * TAN_DEN + offsetX,
      top |-> camera.y * TAN_DEN + offsetY,
      bottom |-> camera.y * TAN_DEN - offsetY]

\* the membership test with < for <=
InRectExclusive(rect, x, y) ==
  /\ x # NaN /\ y # NaN
  /\ x * TAN_DEN > rect.left /\ x * TAN_DEN < rect.right
  /\ y * TAN_DEN > rect.bottom /\ y * TAN_DEN < rect.top

\* the membership test of getAllVisibleNodes, on targetPositionStatus
InRect(rect, x, y) ==
  /\ x # NaN /\ y # NaN
  /\ x * TAN_DEN >= rect.left /\ x * TAN_DEN <= rect.right
  /\ y * TAN_DEN >= rect.bottom /\ y * TAN_DEN <= rect.top

\* getAllVisibleNodes: the ids of the visible nodes, in index order
getAllVisibleNodes ==
  LET rect == getViewPortRect
      target == heap[targetPositionStatus]
  IN SelectSeq(processedData.nodes,
               LAMBDA id :
                 LET i == processedData.nodeInfoMap[id].index
                 IN InRect(rect, target[i * 2], target[i * 2 + 1]))

\* loadImage's test for the default avatar
WantsDefault(id, info) ==
  (~StartsWith(id, <<"n", "u", "l", "l">>) /\ info.image = NoImage)
    \/ info.image = DEFAULT_IMAGE

\* loadImage: whether the pass starts a fetch for the node
StartsFetch(id, info) ==
  /\ ~info.imageTexture
  /\ (WantsDefault(id, info) \/ info.image # NoImage)

HasAva(sc, id) == \E i \in 1..Len(sc) : sc[i].name = "ava" /\ sc[i].id = id

\* generateAvaPoint, on the scene
generateAvaPoint(sc, id) ==
  IF HasAva(sc, id) THEN sc ELSE Append(sc, Obj("ava", id, <<>>))

RECURSIVE AvaPoints(_, _)
AvaPoints(sc, ids) ==
  IF ids = <<>> THEN sc
  ELSE AvaPoints(IF processedData.nodeInfoMap[Head(ids)].imageTexture
                 THEN generateAvaPoint(sc, Head(ids)) ELSE sc,
                 Tail(ids))

InSeq(x, q) == \E i \in 1..Len(q) : q[i] = x

\* the setTimeout callback of loadImage: one visibility-and-load pass
ThrottlePass(i) ==
  /\ Fires(i) /\ timers[i].kind = "throttle"
  /\ timers' = WithoutTimer(i)
  /\ IF camera.z > IMAGE_DISTANCE
     THEN /\ thrown' = ""
          /\ UNCHANGED << throttleTimer, fetches, processedData, scene,
                          passes >>
     ELSE IF targetPositionStatus = Undefined /\ perfInfo.nodeCounts > 0
     THEN /\ thrown' = "TypeError"
          /\ UNCHANGED << throttleTimer, fetches, processedData, scene,
                          passes >>
     ELSE LET visible == IF perfInfo.nodeCounts = 0 THEN <<>>
                         ELSE getAllVisibleNodes
          IN IF visible # <<>> /\ currentPositionStatus = Undefined
             THEN /\ thrown' = "TypeError"
                  /\ UNCHANGED << throttleTimer, fetches, processedData, scene,
                          passes >>
             ELSE /\ thrown' = ""
                  /\ fetches' =
                       [id \in DOMAIN fetches |->
                          IF InSeq(id, visible)
                               /\ StartsFetch(id, processedData.nodeInfoMap[id])
                          THEN [fetches[id] EXCEPT !.pending = @ + 1]
                          ELSE fetches[id]]
                  /\ \A id \in DOMAIN fetches : fetches'[id].pending <= MaxFetches
                  /\ processedData' =
                       [processedData EXCEPT !.nodeInfoMap =
                          [id \in DOMAIN @ |->
                             IF InSeq(id, visible) /\ @[id].imageTexture
                             THEN [@[id] EXCEPT !.imagePoint = TRUE]
                             ELSE @[id]]]
                  /\ scene' = AvaPoints(scene, visible)
                  /\ throttleTimer' = 0
                  /\ passes' = [at |-> now, count |-> passes.count + 1,
                                visible |-> visible]
  /\ UNCHANGED << data, now, perfInfo, linkBuffer, heap, targetPositionStatus,
                  currentPositionStatus, cachePositionStatus, rafId, rafQueue,
                  mouseStatus, listeners, camera, highlighted, worker, frame >>

\* getRoundImage resolves: the then-callback of loadImage
FetchLoaded(id) ==
  /\ id \in DOMAIN fetches /\ fetches[id].pending > 0
  /\ fetches' = [fetches EXCEPT ![id].pending = @ - 1]
  /\ processedData' = [processedData EXCEPT
                         !.nodeInfoMap[id].imageTexture = TRUE,
                         !.nodeInfoMap[id].imagePoint = TRUE]
  /\ scene' = generateAvaPoint(scene, id)
  /\ thrown' = ""
  /\ UNCHANGED << data, passes, now, perfInfo, linkBuffer, heap, targetPositionStatus,
                  currentPositionStatus, cachePositionStatus, rafId, rafQueue,
                  throttleTimer, timers, mouseStatus, listeners, camera,
                  highlighted, worker, frame >>

\* getRoundImage rejects: the catch-callback of loadImage
FetchFailed(id) ==
  /\ id \in DOMAIN fetches /\ fetches[id].pending > 0
  /\ fetches' = [fetches EXCEPT ![id].pending = @ - 1, ![id].failed = TRUE]
  /\ processedData' = [processedData EXCEPT !.nodeInfoMap[id].image = NoImage]
  /\ thrown' = ""
  /\ UNCHANGED << data, passes, now, perfInfo, linkBuffer, heap, targetPositionStatus,
                  currentPositionStatus, cachePositionStatus, rafId, rafQueue,
                  throttleTimer, timers, mouseStatus, listeners, camera, scene,
                  highlighted, worker, frame >>

\* ------------------------------------------------- the other public methods
\* highlight(id)
highlight(id) ==
  /\ id \in TrackedIds(perfInfo.nodeCounts)
  /\ Len(scene) + 4 <= MaxScene
  /\ IF highlighted = id
     THEN thrown' = "" /\ UNCHANGED << scene, highlighted >>
     ELSE IF addHighLightThrows(currentPositionStatus)
     THEN thrown' = "TypeError" /\ UNCHANGED << scene, highlighted >>
     ELSE /\ scene' = addHighLight(scene, id)
          /\ highlighted' = id
          /\ thrown' = ""
  /\ UNCHANGED << data, passes, now, perfInfo, processedData, linkBuffer, heap,
                  targetPositionStatus, currentPositionStatus,
                  cachePositionStatus, rafId, rafQueue, throttleTimer, timers,
                  mouseStatus, listeners, camera, fetches, worker, frame >>

\* unhighlight()
unhighlightCall ==
  /\ scene' = unhighlight(scene)
  /\ highlighted' = NoId
  /\ thrown' = ""
  /\ UNCHANGED << data, passes, now, perfInfo, processedData, linkBuffer, heap,
                  targetPositionStatus, currentPositionStatus,
                  cachePositionStatus, rafId, rafQueue, throttleTimer, timers,
                  mouseStatus, listeners, camera, fetches, worker, frame >>

\* mouseMoveHandler, once 'end' has registered it
mouseMoveHandler ==
  /\ "mousemove" \in listeners
  /\ mouseStatus' = [mouseStatus EXCEPT !.mouseOnChart = TRUE]
  /\ thrown' = ""
  /\ UNCHANGED << data, passes, now, perfInfo, processedData, linkBuffer, heap,
                  targetPositionStatus, currentPositionStatus,
                  cachePositionStatus, rafId, rafQueue, throttleTimer, timers,
                  listeners, camera, scene, highlighted, fetches, worker,
                  frame >>

\* mouseOutHandler, once 'end' has registered it
mouseOutHandler ==
  /\ "mouseout" \in listeners
  /\ mouseStatus' = [mouseStatus EXCEPT !.mouseOnChart = FALSE]
  /\ thrown' = ""
  /\ UNCHANGED << data, passes, now, perfInfo, processedData, linkBuffer, heap,
                  targetPositionStatus, currentPositionStatus,
                  cachePositionStatus, rafId, rafQueue, throttleTimer, timers,
                  listeners, camera, scene, highlighted, fetches, worker,
                  frame >>

\* chartMouseEnterHandler()
chartMouseEnterHandler ==
  /\ mouseStatus' = [mouseStatus EXCEPT !.mouseOnChart = TRUE]
  /\ LET raf == startRender(rafId, rafQueue)
     IN rafId' = raf[1] /\ rafQueue' = raf[2]
  /\ thrown' = ""
  /\ UNCHANGED << data, passes, now, perfInfo, processedData, linkBuffer, heap,
                  targetPositionStatus, currentPositionStatus,
                  cachePositionStatus, throttleTimer, timers, listeners,
                  camera, scene, highlighted, fetches, worker, frame >>

\* chartMouseLeaveHandler()
chartMouseLeaveHandler ==
  /\ mouseStatus' = [mouseStatus EXCEPT !.mouseOnChart = FALSE]
  /\ LET raf == IF ~perfInfo.layouting THEN stopRender(rafId, rafQueue)
                ELSE << rafId, rafQueue >>
     IN rafId' = raf[1] /\ rafQueue' = raf[2]
  /\ thrown' = ""
  /\ UNCHANGED << data, passes, now, perfInfo, processedData, linkBuffer, heap,
                  targetPositionStatus, currentPositionStatus,
                  cachePositionStatus, throttleTimer, timers, listeners,
                  camera, scene, highlighted, fetches, worker, frame >>

\* ------------------------------------------------------------ environment
\* the page that shows the statistics table sets mouseStatus.mouseOnTable
\* while the pointer is over the table; nothing in the class writes it
tableMouse(on) ==
  /\ mouseStatus.mouseOnTable # on
  /\ mouseStatus' = [mouseStatus EXCEPT !.mouseOnTable = on]
  /\ UNCHANGED << data, passes, now, perfInfo, processedData, linkBuffer, heap,
                  targetPositionStatus, currentPositionStatus,
                  cachePositionStatus, rafId, rafQueue, throttleTimer, timers,
                  listeners, camera, scene, highlighted, fetches, worker,
                  thrown, frame >>

\* MapControls: the user zooms and pans
MoveCamera(x, z) ==
  /\ camera' = [camera EXCEPT !.x = x, !.z = z]
  /\ camera' # camera
  /\ UNCHANGED << data, passes, now, perfInfo, processedData, linkBuffer, heap,
                  targetPositionStatus, currentPositionStatus,
                  cachePositionStatus, rafId, rafQueue, throttleTimer, timers,
                  mouseStatus, listeners, scene, highlighted, fetches, worker,
                  thrown, frame >>

\* Another instance of the class in the same page.  Every constructor sets
\* this.perfInfo = GRAPH_DEFAULT_PERF_INFO, the one object of the module:
\* perfInfo is that object, and what the other instance writes to its
\* this.perfInfo is written here.  Its own fields are not followed.
\* constructor and init of the other instance, on data that index to
\* nodeCounts nodes and linkCounts links
otherConstructor(nodeCounts, linkCounts) ==
  /\ perfInfo' = [perfInfo EXCEPT !.nodeCounts = nodeCounts,
                                  !.linkCounts = linkCounts]
  /\ UNCHANGED << data, passes, now, processedData, linkBuffer, heap,
                  targetPositionStatus, currentPositionStatus,
                  cachePositionStatus, rafId, rafQueue, throttleTimer, timers,
                  mouseStatus, listeners, camera, scene, highlighted, fetches,
                  worker, thrown, frame >>

\* worker.onmessage of the other instance, case 'tick'
otherTick(currentTick) ==
  /\ LET prev == IF perfInfo.prevTickTime # 0 THEN perfInfo.prevTickTime ELSE now
     IN perfInfo' = [perfInfo EXCEPT
                       !.layouting = TRUE,
                       !.intervalTime = now - prev,
                       !.prevTickTime = now,
                       !.targetTick = IF currentTick = 1 THEN @ ELSE currentTick]
  /\ UNCHANGED << data, passes, now, processedData, linkBuffer, heap,
                  targetPositionStatus, currentPositionStatus,
                  cachePositionStatus, rafId, rafQueue, throttleTimer, timers,
                  mouseStatus, listeners, camera, scene, highlighted, fetches,
                  worker, thrown, frame >>

\* time passes, up to a last clock reading
AdvanceTo(last) ==
  /\ now + Quantum <= last
  /\ now' = now + Quantum
  /\ UNCHANGED << data, passes, perfInfo, processedData, linkBuffer, heap,
                  targetPositionStatus, currentPositionStatus,
                  cachePositionStatus, rafId, rafQueue, throttleTimer, timers,
                  mouseStatus, listeners, camera, scene, highlighted, fetches,
                  worker, thrown, frame >>

Advance == AdvanceTo(T0 + MaxElapsed)


\* ----------------------------------------------------------- specifications
\* the snapshot with every node at the origin
Origin(n) == [c \in Coords(n) |-> 0]

NoImages(n) == [id \in TrackedIds(n) |-> NoImage]

OneLink == << Link(NodeIds[1], NodeIds[2]) >>

\* a link, the link back, and a link from a node to itself
ThreeLinks ==
  << Link(NodeIds[1], NodeIds[2]), Link(NodeIds[2], NodeIds[1]),
     Link(NodeIds[2], NodeIds[2]) >>

\* The render loop and the worker protocol, on graphs around the
\* interpolation threshold; the caller starts the layout once, the worker
\* reports every tick, the pointer never rests on a node and the camera
\* stays where init put it.
Init ==
  \E n \in {INTERPOLATE_ABOVE, INTERPOLATE_ABOVE + 1} :
    InitGraph(n, OneLink, NoImages(n))

Next ==
  \/ worker.starts = 0 /\ start
  \/ \E k \in {worker.lastTick + 1} \cap 1..MaxTick :
       \E nodes \in Snapshots(perfInfo.nodeCounts) : Tick(k, nodes)
  \/ \E nodes \in Snapshots(perfInfo.nodeCounts) : End(nodes)
  \/ \E i \in 1..Len(timers) : Settle(i)
  \/ \E i \in 1..Len(timers) : Stop(i)
  \/ \E h \in rafQueue : render(h, NoId)
  \/ chartMouseEnterHandler
  \/ chartMouseLeaveHandler
  \/ Advance

Spec == Init /\ [][Next]_vars

\* The same, with a worker that reports only some of its ticks: any stream
\* in increasing currentTick order.
NextGaps ==
  \/ worker.starts = 0 /\ start
  \/ \E k \in 1..MaxTick :
       \E nodes \in Snapshots(perfInfo.nodeCounts) : Tick(k, nodes)
  \/ \E nodes \in Snapshots(perfInfo.nodeCounts) : End(nodes)
  \/ \E i \in 1..Len(timers) : Settle(i)
  \/ \E i \in 1..Len(timers) : Stop(i)
  \/ \E h \in rafQueue : render(h, NoId)
  \/ chartMouseEnterHandler
  \/ chartMouseLeaveHandler
  \/ Advance

SpecGaps == Init /\ [][NextGaps]_vars

\* The visibility-and-load passes and the texture fetches, on small graphs
\* whose nodes have every kind of image; the user zooms and pans.
InitImage ==
  \E n \in 0..Len(NodeIds) :
    \E images \in [TrackedIds(n) -> {NoImage, DEFAULT_IMAGE, CUSTOM_IMAGE}] :
      InitGraph(n, <<>>, images)

NextImage ==
  \/ worker.starts = 0 /\ start
  \/ \E k \in {worker.lastTick + 1} \cap 1..2 : Tick(k, Origin(perfInfo.nodeCounts))
  \/ End(Origin(perfInfo.nodeCounts))
  \/ \E i \in 1..Len(timers) : Settle(i)
  \/ \E i \in 1..Len(timers) : Stop(i)
  \/ \E i \in 1..Len(timers) : ThrottlePass(i)
  \/ \E h \in rafQueue : render(h, NoId)
  \/ \E id \in DOMAIN fetches : FetchLoaded(id)
  \/ \E id \in DOMAIN fetches : FetchFailed(id)
  \/ chartMouseEnterHandler
  \/ \E z \in {IMAGE_DISTANCE - 1, IMAGE_DISTANCE + 1} : MoveCamera(0, z)
  \/ Advance

SpecImage == InitImage /\ [][NextImage]_vars

\* Highlighting, from the pointer (render's ray) and from the public methods,
\* on a two-node graph without links, with one link and with a link, the
\* link back and a link from a node to itself, within one clock reading;
\* the caller may call start() again at any time.
InitHighlight ==
  \E links \in {<<>>, OneLink, ThreeLinks} :
    InitGraph(Len(NodeIds), links, NoImages(Len(NodeIds)))

NextHighlight ==
  \/ start
  \/ \E k \in {worker.lastTick + 1} \cap 1..2 : Tick(k, Origin(perfInfo.nodeCounts))
  \/ End(Origin(perfInfo.nodeCounts))
  \/ \E h \in rafQueue : \E hit \in Hits : render(h, hit)
  \/ \E id \in TrackedIds(perfInfo.nodeCounts) : highlight(id)
  \/ unhighlightCall
  \/ mouseMoveHandler
  \/ mouseOutHandler
  \/ chartMouseEnterHandler

SpecHighlight == InitHighlight /\ [][NextHighlight]_vars

\* The pointer and the timers of 'end': the graphs of Spec with every
\* snapshot at the origin, the pointer moving over the chart and over the
\* statistics table.
NextPointer ==
  \/ worker.starts = 0 /\ start
  \/ \E k \in {worker.lastTick + 1} \cap 1..MaxTick :
       Tick(k, Origin(perfInfo.nodeCounts))
  \/ End(Origin(perfInfo.nodeCounts))
  \/ \E i \in 1..Len(timers) : Settle(i)
  \/ \E i \in 1..Len(timers) : Stop(i)
  \/ \E h \in rafQueue : render(h, NoId)
  \/ mouseMoveHandler
  \/ mouseOutHandler
  \/ chartMouseEnterHandler
  \/ chartMouseLeaveHandler
  \/ \E on \in BOOLEAN : tableMouse(on)
  \/ Advance

SpecPointer == Init /\ [][NextPointer]_vars

\* Culling.  A graph in the interpolating regime, so that the rendered
\* buffer may differ from the target when a pass runs; the user zooms in to
\* CullZ and pans by one unit; the snapshot of end puts each coordinate but
\* the first node's x on the edge of the viewport of the camera at the
\* origin (EdgeCoord) or one unit beyond it.
EdgeCoord == (CullZ * TAN_NUM) \div TAN_DEN

InsideSnapshot(n) == [c \in Coords(n) |-> IF c = 0 THEN 0 ELSE EdgeCoord]

CullSnapshots(n) ==
  { [c \in Coords(n) |-> IF c = 0 THEN 0 ELSE e[c]] :
    e \in [Coords(n) -> {EdgeCoord, EdgeCoord + 1}] }

InitCull == InitGraph(INTERPOLATE_ABOVE + 1, <<>>, NoImages(INTERPOLATE_ABOVE + 1))

NextCull ==
  \/ worker.starts = 0 /\ start
  \/ \E k \in {worker.lastTick + 1} \cap 1..2 :
       Tick(k, InsideSnapshot(perfInfo.nodeCounts))
  \/ \E nodes \in CullSnapshots(perfInfo.nodeCounts) : End(nodes)
  \/ \E i \in 1..Len(timers) : Settle(i)
  \/ \E i \in 1..Len(timers) : Stop(i)
  \/ \E i \in 1..Len(timers) : ThrottlePass(i)
  \/ \E h \in rafQueue : render(h, NoId)
  \/ \E x \in {0, 1} : MoveCamera(x, CullZ)
  \/ Advance

SpecCull == InitCull /\ [][NextCull]_vars

\* The blending window after layout has finished: a graph in the
\* interpolating regime whose last two ticks are further apart than the
\* settle delay, so that frames after the settle delay still blend.
NextWindow ==
  \/ worker.starts = 0 /\ start
  \/ \E k \in {worker.lastTick + 1} \cap 1..2 :
       \E nodes \in Snapshots(perfInfo.nodeCounts) : Tick(k, nodes)
  \/ \E nodes \in Snapshots(perfInfo.nodeCounts) : End(nodes)
  \/ \E i \in 1..Len(timers) : Settle(i)
  \/ \E i \in 1..Len(timers) : Stop(i)
  \/ \E h \in rafQueue : render(h, NoId)
  \/ AdvanceTo(T0 + WindowElapsed)

SpecWindow == InitCull /\ [][NextWindow]_vars

\* Two instances in one page: the graphs of Spec with every snapshot at the
\* origin, and another instance that is constructed, on a graph in one or the
\* other regime, and whose worker ticks.
NextTwo ==
  \/ worker.starts = 0 /\ start
  \/ \E k \in {worker.lastTick + 1} \cap 1..2 :
       Tick(k, Origin(perfInfo.nodeCounts))
  \/ End(Origin(perfInfo.nodeCounts))
  \/ \E i \in 1..Len(timers) : Settle(i)
  \/ \E i \in 1..Len(timers) : Stop(i)
  \/ \E h \in rafQueue : render(h, NoId)
  \/ \E n \in {INTERPOLATE_ABOVE, INTERPOLATE_ABOVE + 1} :
       \E l \in {0, 1} : otherConstructor(n, l)
  \/ \E k \in 1..2 : otherTick(k)
  \/ Advance

SpecTwo == Init /\ [][NextTwo]_vars

\* Indexing.  The constructor is handed raw data: up to MaxRawNodes nodes and
\* MaxRawLinks links over ids that include a repeated id, an id with '-' in
\* it, an array-index id and a property name of Object.prototype.  Every raw
\* node and raw link carries its position as payload, so that two raw
\* entries never carry the same values.  No link has a property name of
\* Object.prototype for its source: linkCountMap would hold a string for it,
\* and the order sort leaves is then the engine's choice.
DataIds == { << "a" >>, << "a", "-", "a" >>, << "1" >>, IdConstructor }

SeqsUpTo(S, max) == UNION { [1..len -> S] : len \in 0..max }

RawNodeLists ==
  { [i \in DOMAIN ids |->
       RawNode(ids[i], i, IF i = 1 THEN NoImage ELSE CUSTOM_IMAGE, i)] :
    ids \in SeqsUpTo(DataIds, MaxRawNodes) }

RawLinkLists ==
  { [i \in DOMAIN ends |-> RawLink(ends[i][1], ends[i][2], i)] :
    ends \in SeqsUpTo((DataIds \ ObjectPrototypeKeys) \X DataIds,
                      MaxRawLinks) }

\* before `new D3ForceGraph(dom, data)`: GRAPH_DEFAULT_PERF_INFO and the
\* field initialisers
InitData ==
  /\ data \in [nodes : RawNodeLists, links : RawLinkLists]
  /\ now = T0
  /\ perfInfo = [nodeCounts |-> 0, linkCounts |-> 0, prevTickTime |-> 0,
                 targetTick |-> 0, intervalTime |-> 0, layouting |-> FALSE]
  /\ processedData = [nodes |-> <<>>, links |-> <<>>, nodeInfoMap |-> <<>>,
                      linkInfoMap |-> <<>>, statTable |-> <<>>,
                      linkBuffer |-> <<>>]
  /\ linkBuffer = [detached |-> FALSE, readDetached |-> FALSE]
  /\ heap = [r \in Refs |-> Free]
  /\ targetPositionStatus = Undefined
  /\ currentPositionStatus = Undefined
  /\ cachePositionStatus = Undefined
  /\ rafId = 0
  /\ rafQueue = {}
  /\ throttleTimer = 0
  /\ timers = <<>>
  /\ mouseStatus = [mouseOnChart |-> FALSE, mouseOnTable |-> FALSE]
  /\ listeners = {}
  /\ camera = [x |-> 0, y |-> 0, z |-> 0]
  /\ scene = <<>>
  /\ highlighted = NoId
  /\ fetches = <<>>
  /\ worker = [created |-> FALSE, starts |-> 0, onmessage |-> FALSE,
               lastTick |-> 0, ended |-> FALSE]
  /\ thrown = ""
  /\ frame = [regime |-> "none", blended |-> FALSE, snapped |-> FALSE]
  /\ passes = [at |-> 0, count |-> 0, visible |-> <<>>]

\* constructor and init: preProcessData, the counts, the scene with its
\* camera and base meshes, the worker; an exception of preProcessData leaves
\* the constructor before any of that
constructor ==
  /\ ~worker.created /\ thrown = ""
  /\ LET r == preProcessData(data)
     IN IF r.throws
        THEN /\ thrown' = "TypeError"
             /\ UNCHANGED << processedData, perfInfo, camera, scene, fetches,
                             worker >>
        ELSE /\ thrown' = ""
             /\ processedData' = [nodes |-> r.nodes, links |-> r.links,
                                  nodeInfoMap |-> r.nodeInfoMap,
                                  linkInfoMap |-> r.linkInfoMap,
                                  statTable |-> r.statTable,
                                  linkBuffer |-> r.linkBuffer]
             /\ perfInfo' = [perfInfo EXCEPT !.nodeCounts = Len(r.nodes),
                                             !.linkCounts = Len(r.links)]
             /\ camera' = [camera EXCEPT !.z = getPositionZ(Len(r.nodes))]
             /\ scene' = << Obj("basePoints", NoId, <<>>),
                            Obj("baseLines", NoId, <<>>) >>
             /\ fetches' = [id \in DOMAIN r.nodeInfoMap |->
                              [pending |-> 0, failed |-> FALSE]]
             /\ worker' = [worker EXCEPT !.created = TRUE]
  /\ UNCHANGED << data, passes, now, linkBuffer, heap, targetPositionStatus,
                  currentPositionStatus, cachePositionStatus, rafId, rafQueue,
                  throttleTimer, timers, mouseStatus, listeners, highlighted,
                  frame >>

NextData == constructor

SpecData == InitData /\ [][NextData]_vars

\* ------------------------------------------------------------------ claims
HlNames == {"hlNodes", "hlLine", "hlArrow", "hlText"}

HlObjects(sc) == { i \in 1..Len(sc) : sc[i].name \in HlNames }

ThrottlePending == \E i \in 1..Len(timers) : timers[i].kind = "throttle"

\* C1: in the interpolating regime no coordinate of the rendered buffer is
\* ever NaN: a frame that runs while the measured interval is 0 divides by
\* nothing and snaps to the target.
C1_NeverNaN ==
  (Interpolating(perfInfo.nodeCounts) /\ currentPositionStatus # Undefined)
    => \A i \in DOMAIN heap[currentPositionStatus] :
         heap[currentPositionStatus][i] # NaN

\* C2: in the interpolating regime, once end is handled and layouting is
\* false, a frame that begins with the rendered buffer differing from the
\* target in some coordinate ends with the two equal in every coordinate.
C2_FrameReachesTarget ==
  [][ ( /\ \E h \in rafQueue : render(h, NoId)
        /\ Interpolating(perfInfo.nodeCounts)
        /\ worker.ended /\ ~perfInfo.layouting
        /\ currentPositionStatus # Undefined
        /\ targetPositionStatus # Undefined
        /\ heap[currentPositionStatus] # heap[targetPositionStatus] )
      => heap'[currentPositionStatus'] = heap'[targetPositionStatus'] ]_vars

\* C3: for each node at most one texture fetch is in flight at any time.
C3_OneFetchInFlight ==
  \A id \in DOMAIN fetches : fetches[id].pending <= 1

\* C4: after a texture fetch for a node has failed, no step starts another
\* fetch for that node.
C4_NoRetryAfterFailure ==
  [][ \A id \in DOMAIN fetches :
        fetches[id].failed => fetches'[id].pending <= fetches[id].pending ]_vars

\* C5: when the highlighted id changes from one node to another, the scene
\* afterwards holds only highlight primitives built for the new node.
C5_HighlightReplaces ==
  [][ (highlighted # NoId /\ highlighted' # NoId /\ highlighted' # highlighted)
      => \A i \in HlObjects(scene') : scene'[i].id = highlighted' ]_vars

\* C6: whenever nothing is highlighted (unhighlight() has returned), the
\* scene holds no highlight primitive of any kind.
C6_UnhighlightClears ==
  highlighted = NoId => HlObjects(scene) = {}

\* C7 as stated: handling the first tick whose currentTick is >= 2 leaves
\* exactly one frame callback pending.
C7_FirstTickFrom2Starts ==
  [][ (worker.lastTick < 2 /\ worker'.lastTick >= 2)
      => Cardinality(rafQueue') = 1 ]_vars

\* C7 as amended: handling the tick whose currentTick is exactly 2 leaves
\* exactly one frame callback pending, the one rafId names, and the handler
\* of any other tick leaves the pending callbacks as they were.
C7_Tick2Starts ==
  [][ worker'.lastTick # worker.lastTick
      => IF worker'.lastTick = 2
         THEN rafQueue' = {rafId'} /\ rafId' # 0
         ELSE rafQueue' = rafQueue /\ rafId' = rafId ]_vars

\* C7 witness: the loop runs after tick 2 and a later tick has been handled
C7_Witness ==
  /\ worker.lastTick = 3 /\ perfInfo.targetTick = 3
  /\ currentPositionStatus # Undefined
  /\ Cardinality(rafQueue) = 1

\* C8 as stated: a frame that has a snapshot to render assigns the rendered buffer directly from the
\* latest snapshot if and only if the node count is below 1000.
C8_DirectIffBelow ==
  (frame.regime # "none" /\ currentPositionStatus # Undefined)
    => (frame.regime = "direct" <=> perfInfo.nodeCounts < INTERPOLATE_ABOVE)

\* C8 as amended: a frame that has a snapshot to render assigns the rendered buffer directly from the
\* latest snapshot if and only if the node count is at most 1000; above 1000
\* it takes the interpolating branch, and then it changes the rendered
\* buffer only by blending inside the window or by the snap.
C8_DirectIffAtMost ==
  (frame.regime # "none" /\ currentPositionStatus # Undefined)
    => /\ frame.regime = "direct" <=> perfInfo.nodeCounts <= INTERPOLATE_ABOVE
       /\ frame.regime = "interpolate" <=> perfInfo.nodeCounts > INTERPOLATE_ABOVE
       /\ frame.regime = "direct" => ~frame.blended /\ ~frame.snapped

\* C8 witness: frames of both regimes at the threshold
C8_Witness ==
  /\ perfInfo.nodeCounts = INTERPOLATE_ABOVE + 1
  /\ frame.regime = "interpolate" /\ frame.blended
  /\ thrown = ""

\* C9: start is posted at most once and the transferred link-index buffer is
\* never read again.
C9_StartOnceNoReread ==
  worker.starts <= 1 /\ ~linkBuffer.readDetached

\* C10: before end is handled no pointer move/out handler is registered and
\* no visibility-and-load timer is pending.
C10_NoInteractionBeforeEnd ==
  ~worker.ended => (listeners = {} /\ ~ThrottlePending)


Range(q) == { q[i] : i \in DOMAIN q }

\* positions of the indexed links with id for source or target
Touching(id) ==
  { k \in DOMAIN processedData.links :
      processedData.links[k].source = id \/ processedData.links[k].target = id }

\* the scene object with the name among those added last
Added(sc, added, name) ==
  sc[CHOOSE i \in (Len(sc) - added + 1)..Len(sc) : sc[i].name = name]

\* C17: a step that highlights another node adds one set, built for that
\* node: its lines are exactly the indexed links that have the node for
\* source or target, each once, and its nodes are the node itself and, for
\* every such link, the other end (so for a link A->B, B is among the nodes
\* of A's set and A among those of B's); highlight(id) of the highlighted
\* id changes neither the scene nor highlighted.
C17_HighlightSymmetric ==
  [][ /\ (highlighted' # highlighted /\ highlighted' # NoId)
          => /\ Len(scene') = Len(scene) + 4
             /\ SubSeq(scene', 1, Len(scene)) = scene
             /\ \A i \in (Len(scene) + 1)..Len(scene') :
                  scene'[i].id = highlighted' /\ scene'[i].name \in HlNames
             /\ LET id == highlighted'
                    nodes == Added(scene', 4, "hlNodes").items
                    lines == Added(scene', 4, "hlLine").items
                IN /\ Range(lines) = { processedData.links[k] : k \in Touching(id) }
                   /\ Len(lines) = Cardinality(Touching(id))
                   /\ id \in Range(nodes)
                   /\ \A k \in DOMAIN processedData.links :
                        LET e == processedData.links[k]
                        IN /\ e.source = id => e.target \in Range(nodes)
                           /\ e.target = id => e.source \in Range(nodes)
                   /\ \A x \in Range(nodes) :
                        \/ x = id
                        \/ \E k \in Touching(id) :
                             x \in { processedData.links[k].source,
                                     processedData.links[k].target }
      /\ \A id \in TrackedIds(perfInfo.nodeCounts) :
           (highlight(id) /\ highlighted = id)
             => (scene' = scene /\ highlighted' = highlighted)
    ]_vars

\* the target of the only link is highlighted, and the link's source is
\* among the highlighted nodes
C17_Witness ==
  /\ processedData.links = OneLink
  /\ highlighted = NodeIds[2]
  /\ \E i \in 1..Len(scene) :
       /\ scene[i].name = "hlNodes" /\ scene[i].id = NodeIds[2]
       /\ NodeIds[1] \in Range(scene[i].items)

\* the rect test of the claim, on a position
InView(x, y) ==
  /\ TAN_DEN * (x - camera.x) <= TAN_NUM * camera.z
  /\ TAN_DEN * (camera.x - x) <= TAN_NUM * camera.z
  /\ TAN_DEN * (y - camera.y) <= TAN_NUM * camera.z
  /\ TAN_DEN * (camera.y - y) <= TAN_NUM * camera.z

TargetX(id) == heap[targetPositionStatus][processedData.nodeInfoMap[id].index * 2]

TargetY(id) ==
  heap[targetPositionStatus][processedData.nodeInfoMap[id].index * 2 + 1]

\* C18: a pass that runs finds visible exactly the nodes whose target
\* position lies in the viewport rect, the edges included, each once and in
\* index order.
C18_VisibleByTarget ==
  [][ passes'.count > passes.count
        => /\ \A id \in TrackedIds(perfInfo.nodeCounts) :
                InSeq(id, passes'.visible) <=> InView(TargetX(id), TargetY(id))
           /\ \A i, j \in DOMAIN passes'.visible :
                i < j => processedData.nodeInfoMap[passes'.visible[i]].index
                          < processedData.nodeInfoMap[passes'.visible[j]].index
    ]_vars

\* the pass just run found the second node, whose target x is on the right
\* edge of the rect while its rendered x is not, and not the first node,
\* whose target y is beyond the top edge
C18_Witness ==
  /\ passes.count > 0 /\ passes.at = now
  /\ passes.visible = << NodeIds[2] >>
  /\ targetPositionStatus # Undefined /\ currentPositionStatus # Undefined
  /\ TAN_DEN * (TargetX(NodeIds[2]) - camera.x) = TAN_NUM * camera.z
  /\ heap[currentPositionStatus][2] # TargetX(NodeIds[2])
  /\ TAN_DEN * (TargetY(NodeIds[1]) - camera.y) > TAN_NUM * camera.z

\* C19 as stated: after the handler of a tick with currentTick >= 2, target
\* holds that tick's snapshot and cached holds the target the tick replaced.
C19_CacheIsPreviousTarget ==
  [][ \A k \in 2..(MaxTick + 1) : \A nodes \in Snapshots(perfInfo.nodeCounts) :
        Tick(k, nodes) /\ targetPositionStatus # Undefined
          => /\ heap'[targetPositionStatus'] = nodes
             /\ cachePositionStatus' # Undefined
             /\ heap'[cachePositionStatus'] = heap[targetPositionStatus]
    ]_vars

\* C19, amended: after the handler of a tick with currentTick >= 2, target is
\* a fresh buffer holding that tick's snapshot, and cached holds a copy of
\* the rendered buffer as the handler found it: the snapshot of tick 1 at
\* tick 2, and at later ticks whatever the frames since have left there.
C19_CacheIsRendered ==
  [][ \A k \in 2..(MaxTick + 1) : \A nodes \in Snapshots(perfInfo.nodeCounts) :
        Tick(k, nodes) /\ targetPositionStatus # Undefined
          => /\ heap'[targetPositionStatus'] = nodes
             /\ targetPositionStatus' \notin
                  {Undefined, currentPositionStatus', cachePositionStatus'}
             /\ currentPositionStatus' =
                  (IF k = 2 THEN targetPositionStatus ELSE currentPositionStatus)
             /\ currentPositionStatus' # Undefined
                  => /\ cachePositionStatus' # Undefined
                     /\ heap'[currentPositionStatus'] = heap[currentPositionStatus']
                     /\ heap'[cachePositionStatus'] = heap[currentPositionStatus']
    ]_vars

\* tick 3 has been handled after a frame had blended part of the way from the
\* snapshot of tick 1 to that of tick 2: the cached buffer holds a position
\* that no snapshot has
C19_Witness ==
  /\ worker.lastTick = 3 /\ perfInfo.targetTick = 3 /\ thrown = ""
  /\ cachePositionStatus # Undefined
  /\ \E c \in DOMAIN heap[cachePositionStatus] :
       heap[cachePositionStatus][c] \notin {0, MaxCoord, NaN}

\* C20: at most one frame callback is pending, the one rafId names, and every
\* frame that runs leaves exactly one successor pending.
C20_OnePendingFrame ==
  [][ /\ Cardinality(rafQueue') <= 1
      /\ rafQueue' = (IF rafId' = 0 THEN {} ELSE {rafId'})
      /\ (\E h \in rafQueue : \E hit \in Hits : render(h, hit))
           => rafId' # 0 /\ Cardinality(rafQueue') = 1
    ]_vars

\* C21: the cached buffer and the target buffer are never the same storage.
C21_CacheNotTarget ==
  cachePositionStatus # Undefined => cachePositionStatus # targetPositionStatus

\* a frame has snapped the rendered buffer to the target after 'end': the
\* rendered buffer is the target's storage, the cached buffer is not
C21_Witness ==
  /\ worker.ended /\ frame.snapped /\ thrown = ""
  /\ cachePositionStatus # Undefined
  /\ currentPositionStatus = targetPositionStatus
  /\ cachePositionStatus # targetPositionStatus

\* C22: the link-index buffer has two entries per indexed link, the node
\* indices of the link's source and target, each in 0..nodeCount-1.
C22_LinkBufferAligned ==
  worker.created =>
    LET buffer == processedData.linkBuffer
        map == processedData.nodeInfoMap
    IN /\ Len(buffer) = 2 * Len(processedData.links)
       /\ \A k \in DOMAIN processedData.links :
            LET l == processedData.links[k]
            IN /\ l.source \in DOMAIN map /\ l.target \in DOMAIN map
               /\ buffer[2 * k - 1] = map[l.source].index
               /\ buffer[2 * k] = map[l.target].index
       /\ \A i \in DOMAIN buffer : buffer[i] \in 0..(perfInfo.nodeCounts - 1)

ThrottleTimers(tms) == { i \in 1..Len(tms) : tms[i].kind = "throttle" }

\* C24: a render frame leaves the target where it is and as it is.
C24_FramesKeepTarget ==
  [][ (\E h \in rafQueue : \E hit \in Hits : render(h, hit))
        /\ targetPositionStatus # Undefined
        => /\ targetPositionStatus' = targetPositionStatus
           /\ heap'[targetPositionStatus] = heap[targetPositionStatus]
    ]_vars

\* C25: while a frame callback is pending there is a target snapshot, and in
\* the interpolating regime a rendered and a cached buffer too.
C25_NoFrameBeforeSnapshot ==
  rafQueue # {}
    => /\ targetPositionStatus # Undefined
       /\ Interpolating(perfInfo.nodeCounts)
            => /\ currentPositionStatus # Undefined
               /\ cachePositionStatus # Undefined

\* C26: the arrow pass run when layout is marked finished computes the
\* arrows from the snapshot that end delivered.
C26_ArrowsFromFinalSnapshot ==
  [][ (\E i \in 1..Len(timers) : Settle(i)) /\ thrown' = ""
        /\ Len(processedData.links) > 0
        => /\ Len(scene') = Len(scene) + 1
           /\ scene'[Len(scene')].name = "arrows"
           /\ scene'[Len(scene')].items = heap[targetPositionStatus]
    ]_vars

\* C27: nothing another instance does changes this instance's node and link
\* counts, layouting flag, previous tick time or interval.
C27_PerfInfoIsolated ==
  [][ ( \/ \E n \in {INTERPOLATE_ABOVE, INTERPOLATE_ABOVE + 1} :
             \E l \in {0, 1} : otherConstructor(n, l)
        \/ \E k \in 1..2 : otherTick(k) )
      => /\ perfInfo'.nodeCounts = perfInfo.nodeCounts
         /\ perfInfo'.linkCounts = perfInfo.linkCounts
         /\ perfInfo'.layouting = perfInfo.layouting
         /\ perfInfo'.prevTickTime = perfInfo.prevTickTime
         /\ perfInfo'.intervalTime = perfInfo.intervalTime
    ]_vars

\* C23: every firing of the throttle timer releases the throttle, also the
\* firing of a pass skipped for the camera's distance, so that the throttle
\* is held only while a timer is pending and a later request arms a new one.
C23_SkippedPassReleases ==
  [][ /\ (\E i \in 1..Len(timers) : ThrottlePass(i)) /\ thrown' = ""
           => throttleTimer' = 0
      /\ thrown' = "" /\ ThrottleTimers(timers') = {} => throttleTimer' = 0
    ]_vars

\* C12: at most one throttle timer is pending, and throttleTimer is set
\* while it is; a step taken while one is pending arms no other; a pending
\* timer is due no earlier than THROTTLE_DELAY after the last pass that ran,
\* and two passes that run are at least THROTTLE_DELAY apart.
C12_OneThrottleTimer ==
  [][ /\ Cardinality(ThrottleTimers(timers')) <= 1
      /\ ThrottleTimers(timers') # {} => throttleTimer' # 0
      /\ ThrottleTimers(timers) # {}
          => \A j \in ThrottleTimers(timers') :
               \E i \in ThrottleTimers(timers) : timers'[j] = timers[i]
      /\ \A j \in ThrottleTimers(timers') :
           passes'.count > 0 => timers'[j].due >= passes'.at + THROTTLE_DELAY
      /\ (passes'.count > passes.count /\ passes.count > 0)
          => passes'.at >= passes.at + THROTTLE_DELAY
    ]_vars

\* a second pass has run, one cooldown after the first, and a frame has
\* asked for a third
C12_Witness ==
  /\ passes.count = 2
  /\ ThrottleTimers(timers) # {}
  /\ throttleTimer # 0

\* ---- the indexed model against the raw data
RawIds == { data.nodes[i].id : i \in DOMAIN data.nodes }

\* position of the first raw node with the id
FirstNode(id) ==
  CHOOSE i \in DOMAIN data.nodes :
    data.nodes[i].id = id /\ \A j \in 1..(i - 1) : data.nodes[j].id # id

RawPair(i) == << data.links[i].source, data.links[i].target >>

RawPairs == { RawPair(i) : i \in DOMAIN data.links }

\* position of the first raw link with the pair
FirstLink(p) ==
  CHOOSE i \in DOMAIN data.links :
    RawPair(i) = p /\ \A j \in 1..(i - 1) : RawPair(j) # p

\* positions of the indexed links with the pair, and with the source
KeptAs(p) ==
  { k \in DOMAIN processedData.links :
      << processedData.links[k].source, processedData.links[k].target >> = p }

KeptFrom(s) ==
  { k \in DOMAIN processedData.links : processedData.links[k].source = s }

KeptSources ==
  { processedData.links[k].source : k \in DOMAIN processedData.links }

\* position of the first indexed link with the source
Discovered(s) == CHOOSE k \in KeptFrom(s) : \A j \in KeptFrom(s) : k <= j

\* C13: when a raw link names a source or target that is no raw node's id,
\* the constructor throws out of preProcessData: no indexed model, no worker.
C13_UnknownIdAborts ==
  (\E i \in DOMAIN data.links :
      data.links[i].source \notin RawIds \/ data.links[i].target \notin RawIds)
    => ~worker.created

\* C14: after indexing, every raw id has exactly one index, the indices are
\* 0..nodeCount-1 in the order of first occurrence, and the stored scale,
\* image and name are those of the first occurrence.
C14_IndicesFollowFirstOccurrence ==
  worker.created =>
    /\ DOMAIN processedData.nodeInfoMap = RawIds
    /\ Len(processedData.nodes) = Cardinality(RawIds)
    /\ perfInfo.nodeCounts = Cardinality(RawIds)
    /\ \A id \in RawIds :
         LET first == data.nodes[FirstNode(id)]
             info == processedData.nodeInfoMap[id]
         IN /\ info.index =
                 Cardinality({ o \in RawIds : FirstNode(o) < FirstNode(id) })
            /\ processedData.nodes[info.index + 1] = id
            /\ info.scale = first.scale
            /\ info.image = first.image
            /\ info.name = first.name

\* C15: a (source,target) pair that raw links repeat is indexed once, at the
\* position of its first occurrence among the pairs and with the color of
\* its first occurrence; the link-index buffer has two entries per indexed
\* link and the out-degree of a source counts its indexed links.
C15_RepeatedPairKeptOnce ==
  worker.created =>
    \A p \in RawPairs :
      (\E i, j \in DOMAIN data.links : i # j /\ RawPair(i) = p /\ RawPair(j) = p)
        => /\ KeptAs(p) =
                { Cardinality({ q \in RawPairs : FirstLink(q) < FirstLink(p) }) + 1 }
           /\ processedData.linkInfoMap[linkInfoKey(p[1], p[2])].color
                = data.links[FirstLink(p)].color
           /\ Len(processedData.linkBuffer) = 2 * Len(processedData.links)
           /\ \E i \in DOMAIN processedData.statTable :
                /\ processedData.statTable[i].source = p[1]
                /\ processedData.statTable[i].count = Cardinality(KeptFrom(p[1]))

\* C16: the degree ranking has one entry per source of an indexed link, with
\* the number of indexed links from that source; it is sorted by count,
\* non-increasing, entries of equal count in the order in which their
\* sources were first met, and it has at most STAT_TABLE_MAX entries.
C16_DegreeRanking ==
  worker.created =>
    LET t == processedData.statTable
    IN /\ Len(t) = Min(Cardinality(KeptSources), STAT_TABLE_MAX)
       /\ \A i \in DOMAIN t :
            /\ t[i].source \in KeptSources
            /\ t[i].count = Cardinality(KeptFrom(t[i].source))
       /\ \A i, j \in DOMAIN t :
            i < j =>
              /\ t[i].source # t[j].source
              /\ \/ t[i].count > t[j].count
                 \/ /\ t[i].count = t[j].count
                    /\ Discovered(t[i].source) < Discovered(t[j].source)

\* C28: raw links with different (source, target) pairs are never collapsed:
\* there are as many indexed links as distinct pairs in the input, and every
\* pair of the input is the pair of an indexed link.
C28_DistinctPairsKept ==
  worker.created =>
    /\ Len(processedData.links) = Cardinality(RawPairs)
    /\ \A p \in RawPairs : KeptAs(p) # {}

=============================================================================
